---- MODULE Spec2Model ----
(***************************************************************************)
(* A model of captest.CapTest (src/captest/captest.py): the regression /   *)
(* filtering workflow, the filter history and the capacity-ratio           *)
(* evaluation.                                                             *)
(*                                                                         *)
(* Data abstraction.  A CapData object is the set of row labels of its     *)
(* DataFrame (the index is kept in order by .loc, so a set of labels       *)
(* determines the frame).  Column values enter only through the outcome of *)
(* the fit: residuals, coefficients and p-values are drawn from bounded    *)
(* sets.  Quantities with a physical unit (coefficients, actual, expected) *)
(* are integers counting thousandths; p-values count hundredths; ratios    *)
(* are exact pairs <<numerator, denominator>>.                             *)
(***************************************************************************)
EXTENDS Integers, Sequences, FiniteSets, TLC

\* ------------------------------------------------------------------ bounds

\* Rows of the raw measured dataset.
MaxRows == 8
\* Rows of the raw simulated dataset.
SimRows == 5
\* Records kept per dataset history.
MaxHist == 2

\* Number of terms of reg_fml: poa, poa^2, poa*t_amb, poa*w_vel, no intercept.
NParams == 4
\* cap_ratio is corrected when below 0.01 = 1 / RatioCutInv.
RatioCutInv == 100
\* The unit correction factor.
UnitFactor == 1000
\* The nameplate res_summary passes to cp_results.
SummaryNameplate == 2000
\* The default p-value cutoff 0.05, in hundredths.
DefaultPval == 5

Tags == {"das", "sim"}

\* Residuals a fit may report for a row (the sign matters only through abs).
ResidValues == {-1, 0}

\* Names of the filter methods the update_summary decorator wraps.
FilterNames == {"filter_irr", "filter_outliers"}

Nameplates == {1000}

\* ------------------------------------------------------------- pure helpers

Abs(x) == IF x < 0 THEN -x ELSE x

RECURSIVE SumSqTo(_, _, _)
\* Sum of the squared residuals of the rows labelled 1..n.
SumSqTo(resid, rows, n) ==
    IF n = 0 THEN 0
    ELSE (IF n \in rows THEN resid[n] * resid[n] ELSE 0)
         + SumSqTo(resid, rows, n - 1)

\* Sum of squared residuals over a set of rows (reg.ssr).
SumSq(resid, rows) == SumSqTo(resid, rows, MaxRows + SimRows)

\* A regression result that has not been fitted (None).
None == [params |-> << >>, pvalues |-> << >>]

\* Coefficients and p-values a fit of the measured data may return.
DasFits ==
    { [params |-> <<900, 0, 50, 0>>,  pvalues |-> <<1, 1, 5, 1>>],
      [params |-> <<880, 220, 0, 0>>, pvalues |-> <<1, 20, 1, 1>>],
      [params |-> <<3, 0, 0, 0>>,     pvalues |-> <<1, 1, 1, 1>>],
      [params |-> <<10, 0, 0, 0>>,    pvalues |-> <<1, 1, 1, 1>>] }

\* Coefficients and p-values a fit of the simulated data may return.
SimFits ==
    { [params |-> <<1000, 0, 0, 0>>,   pvalues |-> <<1, 1, 1, 1>>],
      [params |-> <<1000, 500, 0, 0>>, pvalues |-> <<1, 1, 1, 1>>],
      [params |-> <<0, 0, 700, 0>>,    pvalues |-> <<1, 1, 20, 1>>] }

Fits(data) == IF data = "das" THEN DasFits ELSE SimFits

\* rc as __init__ leaves it: dict().
EmptyRC == [k \in {} |-> 0]

\* Reporting conditions the caller may store in rc.
RCs == { [poa |-> 1, t_amb |-> 1, w_vel |-> 1],
         [poa |-> 1, t_amb |-> 2, w_vel |-> 0] }

\* Tolerance strings the caller may store, as sequences of characters.
Tolerances ==
    { <<"+", "/", "-", " ", "1", "0">>,
      <<"-", "/", "+", " ", "1", "0">>,
      <<"+", " ", "1", "0">>,
      <<"-", " ", "1", "0">>,
      <<"*", " ", "1", "0">>,
      <<"*", "1", "0">>,
      <<"+", "/", "-", " ", "x">> }

\* ------------------------------------------------------------------- state

VARIABLES
    das,            \* raw measured CapData: its row labels
    sim,            \* raw simulated CapData
    flt_das,        \* filtered measured CapData
    flt_sim,        \* filtered simulated CapData
    copied,         \* history: tags whose flt_* has been replaced by a raw copy
    das_mindex,     \* history index tuples of das
    das_summ_data,  \* history records of das
    sim_mindex,
    sim_summ_data,
    rc,             \* reporting conditions
    tolerance,      \* [has, str]: the tolerance attribute, absent until set
    ols_model_das,
    ols_model_sim,
    ret             \* the last call: its arguments, result and output

vars == <<das, sim, flt_das, flt_sim, copied, das_mindex, das_summ_data,
          sim_mindex, sim_summ_data, rc, tolerance, ols_model_das,
          ols_model_sim, ret>>

\* The record of a call, before the call fills it in.
NoRet ==
    [op |-> "init", data |-> "", filter |-> FALSE, inplace |-> FALSE,
     check_pvalues |-> FALSE, print_res |-> FALSE,
     out |-> "None",            \* what the call returned, or the exception
     rows |-> {},               \* rows of a returned CapData
     cap_ratio |-> << >>,       \* the returned ratio <<num, den>>
     frame |-> [mindex |-> << >>, data |-> << >>],   \* a returned DataFrame
     stdout |-> [result |-> "", values |-> << >>, bounds |-> << >>]]

Raw(data) == IF data = "das" THEN das ELSE sim
Flt(data) == IF data = "das" THEN flt_das ELSE flt_sim
Model(data) == IF data = "das" THEN ols_model_das ELSE ols_model_sim

\* CapTest.__init__ applied to the raw datasets d and s.
Construct(d, s) ==
    /\ das = d
    /\ sim = s
    /\ flt_das = {}
    /\ flt_sim = {}
    /\ copied = {}
    /\ das_mindex = << >>
    /\ das_summ_data = << >>
    /\ sim_mindex = << >>
    /\ sim_summ_data = << >>
    /\ rc = EmptyRC
    /\ tolerance = [has |-> FALSE, str |-> << >>]
    /\ ols_model_das = None
    /\ ols_model_sim = None
    /\ ret = NoRet

\* A measured dataset too short to fit, or one of MaxRows rows.
Init == \E d \in {1..(NParams - 1), 1..MaxRows} : Construct(d, 1..SimRows)

\* ------------------------------------------------------- regression, filter

\* CapData.empty(): the dataset holds no rows.
empty(rows) == rows = {}

\* __flt_setup: the rows of the filtered CapData the call works on.  When the
\* filtered object is empty it is first replaced by a copy of the raw data.
flt_setup(data) == IF empty(Flt(data)) THEN Raw(data) ELSE Flt(data)

\* fit_model raises when the frame has fewer rows than the formula has terms.
FitError(rows) == Cardinality(rows) < NParams

\* The residual vectors a fit over rows may report.
Resids(rows) == [rows -> ResidValues]

\* df[np.abs(reg.resid) < 2 * np.sqrt(reg.scale)], reg.scale = ssr / df_resid.
\* With df_resid = 0 the scale is inf (every row kept) or, for ssr = 0, nan
\* (no comparison holds, no row kept).
Kept(rows, resid) ==
    LET ssr == SumSq(resid, rows)
        df_resid == Cardinality(rows) - NParams
    IN  { i \in rows :
            IF df_resid = 0 THEN ssr > 0
            ELSE Abs(resid[i]) * Abs(resid[i]) * df_resid < 4 * ssr }

\* The filtered object as reg_cpt(filter=True) leaves it: cd_obj is the stored
\* object itself, so cd_obj.df = ... changes it whatever inplace is.
StoredAfterFilter(before, kept, inplace) == kept

reg_cpt(data, filter, inplace) ==
    LET cd_obj == flt_setup(data)
        call == [NoRet EXCEPT !.op = "reg_cpt", !.data = data,
                              !.filter = filter, !.inplace = inplace]
    IN  /\ copied' = IF empty(Flt(data)) THEN copied \cup {data} ELSE copied
        /\ IF FitError(cd_obj)
           THEN /\ flt_das' = IF data = "das" THEN cd_obj ELSE flt_das
                /\ flt_sim' = IF data = "sim" THEN cd_obj ELSE flt_sim
                /\ ret' = [call EXCEPT !.out = "FitError"]
                /\ UNCHANGED <<ols_model_das, ols_model_sim>>
           ELSE IF filter
           THEN \E resid \in Resids(cd_obj) :
                  LET kept == Kept(cd_obj, resid)
                      stored == StoredAfterFilter(cd_obj, kept, inplace)
                  IN  /\ flt_das' = IF data = "das" THEN stored ELSE flt_das
                      /\ flt_sim' = IF data = "sim" THEN stored ELSE flt_sim
                      /\ ret' = IF inplace THEN call
                                ELSE [call EXCEPT !.out = "CapData",
                                                  !.rows = kept]
                      /\ UNCHANGED <<ols_model_das, ols_model_sim>>
           ELSE \E reg \in Fits(data) :
                  /\ flt_das' = IF data = "das" THEN cd_obj ELSE flt_das
                  /\ flt_sim' = IF data = "sim" THEN cd_obj ELSE flt_sim
                  /\ ols_model_das' = IF data = "das" THEN reg ELSE ols_model_das
                  /\ ols_model_sim' = IF data = "sim" THEN reg ELSE ols_model_sim
                  /\ ret' = call
        /\ UNCHANGED <<das, sim, das_mindex, das_summ_data, sim_mindex,
                       sim_summ_data, rc, tolerance>>

\* ------------------------------------------------------------ filter history

\* The update_summary decorator around a filter method of the dataset tagged
\* data: one index tuple and one record are appended to that tag's history.
update_summary(data, name) ==
    /\ Len(IF data = "das" THEN das_mindex ELSE sim_mindex) < MaxHist
    /\ das_mindex' = IF data = "das"
                     THEN Append(das_mindex, <<data, name>>) ELSE das_mindex
    /\ das_summ_data' = IF data = "das"
                        THEN Append(das_summ_data, [filter_arguments |-> name])
                        ELSE das_summ_data
    /\ sim_mindex' = IF data = "sim"
                     THEN Append(sim_mindex, <<data, name>>) ELSE sim_mindex
    /\ sim_summ_data' = IF data = "sim"
                        THEN Append(sim_summ_data, [filter_arguments |-> name])
                        ELSE sim_summ_data
    /\ ret' = [NoRet EXCEPT !.op = "update_summary", !.data = data]
    /\ UNCHANGED <<das, sim, flt_das, flt_sim, copied, rc, tolerance,
                   ols_model_das, ols_model_sim>>

\* summary() with the das-only branch left out.
summary_merge_no_elif(dsd, dmi, ssd, smi) ==
    IF Len(dsd) # 0 /\ Len(ssd) # 0
    THEN [summ_data |-> dsd \o ssd, mindex |-> dmi \o smi]
    ELSE [summ_data |-> ssd, mindex |-> smi]

\* The lists summary() builds before it makes the DataFrame.
summary_merge(dsd, dmi, ssd, smi) ==
    IF Len(dsd) # 0 /\ Len(ssd) # 0
    THEN [summ_data |-> dsd \o ssd, mindex |-> dmi \o smi]
    ELSE IF Len(dsd) # 0
    THEN [summ_data |-> dsd, mindex |-> dmi]
    ELSE [summ_data |-> ssd, mindex |-> smi]

\* summary(): MultiIndex.from_tuples raises TypeError for an empty list, which
\* the method answers with a message; otherwise the frame is returned.
summary ==
    LET m == summary_merge(das_summ_data, das_mindex, sim_summ_data, sim_mindex)
        call == [NoRet EXCEPT !.op = "summary"]
    IN  /\ ret' = IF m.mindex = << >>
                  THEN [call EXCEPT !.stdout.result = "No filters have been run."]
                  ELSE [call EXCEPT !.out = "DataFrame",
                                    !.frame = [mindex |-> m.mindex,
                                               data |-> m.summ_data]]
        /\ UNCHANGED <<das, sim, flt_das, flt_sim, copied, das_mindex,
                       das_summ_data, sim_mindex, sim_summ_data, rc, tolerance,
                       ols_model_das, ols_model_sim>>

\* ------------------------------------------------------------- uncertainty

\* uncertainty is defined without a self parameter: called on an instance it
\* raises TypeError before its body runs (the body would also discard the
\* frame df.append returns and read the undefined names self and actual).
uncertainty ==
    /\ ret' = [NoRet EXCEPT !.op = "uncertainty", !.out = "TypeError"]
    /\ UNCHANGED <<das, sim, flt_das, flt_sim, copied, das_mindex,
                   das_summ_data, sim_mindex, sim_summ_data, rc, tolerance,
                   ols_model_das, ols_model_sim>>

\* --------------------------------------------------------- capacity results

\* The caller stores the reporting conditions.
set_rc(point) ==
    /\ rc' = point
    /\ ret' = [NoRet EXCEPT !.op = "set_rc"]
    /\ UNCHANGED <<das, sim, flt_das, flt_sim, copied, das_mindex,
                   das_summ_data, sim_mindex, sim_summ_data, tolerance,
                   ols_model_das, ols_model_sim>>

\* The caller stores the tolerance string.
set_tolerance(str) ==
    /\ tolerance' = [has |-> TRUE, str |-> str]
    /\ ret' = [NoRet EXCEPT !.op = "set_tolerance"]
    /\ UNCHANGED <<das, sim, flt_das, flt_sim, copied, das_mindex,
                   das_summ_data, sim_mindex, sim_summ_data, rc,
                   ols_model_das, ols_model_sim>>

RECURSIVE split(_)
\* str.split(sep=' '): the pieces between single spaces, empty pieces kept.
split(s) ==
    IF \A i \in 1..Len(s) : s[i] # " " THEN <<s>>
    ELSE LET i == CHOOSE k \in 1..Len(s) :
                    s[k] = " " /\ \A j \in 1..(k - 1) : s[j] # " "
         IN  <<SubSeq(s, 1, i - 1)>> \o split(SubSeq(s, i + 1, Len(s)))

DigitChars == <<"0", "1", "2", "3", "4", "5", "6", "7", "8", "9">>
IsDigit(c) == \E i \in 1..Len(DigitChars) : DigitChars[i] = c
DigitVal(c) == (CHOOSE i \in 1..Len(DigitChars) : DigitChars[i] = c) - 1

RECURSIVE DigitsVal(_)
DigitsVal(t) ==
    IF t = << >> THEN 0
    ELSE 10 * DigitsVal(SubSeq(t, 1, Len(t) - 1)) + DigitVal(t[Len(t)])

\* The part of a token after an optional sign.
Unsigned(t) == IF t # << >> /\ t[1] \in {"+", "-"} THEN Tail(t) ELSE t

\* int(t) succeeds: an optional sign and at least one digit.
IsInt(t) == Unsigned(t) # << >> /\ \A i \in 1..Len(Unsigned(t)) : IsDigit(Unsigned(t)[i])

\* int(t).
int(t) == IF t # << >> /\ t[1] = "-" THEN -DigitsVal(Unsigned(t))
          ELSE DigitsVal(Unsigned(t))

\* The value of a formula term at a reporting condition.
Term(k, point) ==
    CASE k = 1 -> point.poa
      [] k = 2 -> point.poa * point.poa
      [] k = 3 -> point.poa * point.t_amb
      [] k = 4 -> point.poa * point.w_vel

RECURSIVE predictTo(_, _, _)
predictTo(model, point, k) ==
    IF k = 0 THEN 0
    ELSE model.params[k] * Term(k, point) + predictTo(model, point, k - 1)

\* model.predict(rc)[0].
predict(model, point) == predictTo(model, point, NParams)

\* The model after the check_pvalues loop: every coefficient whose p-value
\* exceeds pval is set to zero.
ZeroedParams(model, pval) ==
    [k \in 1..NParams |-> IF model.pvalues[k] > pval THEN 0 ELSE model.params[k]]

\* What the check_pvalues loop leaves in the stored model: model.params is the
\* stored Series, so params[key] = 0 writes into the stored model.
StoredAfterPvalCheck(model, pval) ==
    [model EXCEPT !.params = ZeroedParams(model, pval)]

\* The cut taken as cap_ratio <= 0.01.
BelowCut_inclusive(actual, expected) ==
    expected > 0 /\ actual * RatioCutInv <= expected

\* cap_ratio < 0.01 for cap_ratio = actual / expected (nan and inf are not).
BelowCut(actual, expected) ==
    expected > 0 /\ actual * RatioCutInv < expected

\* The band with its upper end left out.
InBand_open_above(lo, nameplate, ratio, hi) ==
    /\ ratio[2] > 0
    /\ lo * ratio[2] <= 100 * nameplate * ratio[1]
    /\ 100 * nameplate * ratio[1] < hi * ratio[2]

\* lo <= nameplate * n / d <= hi, lo and hi in hundredths; d = 0 stands for a
\* capacity of inf or nan, inside no band.
InBand(lo, nameplate, ratio, hi) ==
    /\ ratio[2] > 0
    /\ lo * ratio[2] <= 100 * nameplate * ratio[1]
    /\ 100 * nameplate * ratio[1] <= hi * ratio[2]

Symmetric == { <<"+", "/", "-">>, <<"-", "/", "+">> }

\* cp_results on models md, ms: the models it leaves, what it returns or
\* raises, and what it prints.
cp_results_eval(md, ms, point, tol, nameplate, check_pvalues, pval, print_res) ==
    LET fail(d, s, kind) ==
            [das |-> d, sim |-> s, out |-> kind, cap_ratio |-> << >>,
             stdout |-> NoRet.stdout]
        md1 == IF check_pvalues /\ md # None
               THEN StoredAfterPvalCheck(md, pval) ELSE md
        ms1 == IF check_pvalues /\ md # None /\ ms # None
               THEN StoredAfterPvalCheck(ms, pval) ELSE ms
    IN  IF md = None \/ ms = None THEN fail(md1, ms1, "AttributeError")
        ELSE IF ~({"poa", "t_amb", "w_vel"} \subseteq DOMAIN point)
        THEN fail(md1, ms1, "PatsyError")
        ELSE
        LET actual0 == predict(md1, point)
            expected == predict(ms1, point)
            corrected == BelowCut(actual0, expected)
            cap_ratio == IF corrected THEN <<actual0 * UnitFactor, expected>>
                         ELSE <<actual0, expected>>
            actual == IF corrected THEN actual0 * UnitFactor ELSE actual0
        IN  IF ~tol.has THEN fail(md1, ms1, "AttributeError")
            ELSE IF Len(split(tol.str)) < 2 THEN fail(md1, ms1, "IndexError")
            ELSE IF ~IsInt(split(tol.str)[2]) THEN fail(md1, ms1, "ValueError")
            ELSE
            LET sign == split(tol.str)[1]
                error == int(split(tol.str)[2])
                plus == nameplate * (100 + error)
                minus == nameplate * (100 - error)
                lo == IF sign = <<"+">> THEN nameplate * 100 ELSE minus
                hi == IF sign = <<"-">> THEN nameplate * 100 ELSE plus
                known == sign \in Symmetric \cup { <<"+">>, <<"-">> }
                values == <<expected, actual, cap_ratio,
                            <<nameplate * cap_ratio[1], cap_ratio[2]>> >>
            IN  IF ~print_res
                THEN [das |-> md1, sim |-> ms1, out |-> "ratio",
                      cap_ratio |-> cap_ratio, stdout |-> NoRet.stdout]
                ELSE IF ~known
                THEN [das |-> md1, sim |-> ms1, out |-> "UnboundLocalError",
                      cap_ratio |-> << >>,
                      stdout |-> [result |-> "Sign must be '+', '-', '+/-', or '-/+'.",
                                  values |-> values, bounds |-> << >>]]
                ELSE [das |-> md1, sim |-> ms1, out |-> "ratio",
                      cap_ratio |-> cap_ratio,
                      stdout |-> [result |-> IF InBand(lo, nameplate, cap_ratio, hi)
                                             THEN "PASS" ELSE "FAIL",
                                  values |-> values, bounds |-> <<lo, hi>>]]

cp_results(nameplate, check_pvalues, pval, print_res) ==
    LET r == cp_results_eval(ols_model_das, ols_model_sim, rc, tolerance,
                             nameplate, check_pvalues, pval, print_res)
    IN  /\ ols_model_das' = r.das
        /\ ols_model_sim' = r.sim
        /\ ret' = [NoRet EXCEPT !.op = "cp_results",
                                !.check_pvalues = check_pvalues,
                                !.print_res = print_res, !.out = r.out,
                                !.cap_ratio = r.cap_ratio, !.stdout = r.stdout]
        /\ UNCHANGED <<das, sim, flt_das, flt_sim, copied, das_mindex,
                       das_summ_data, sim_mindex, sim_summ_data, rc, tolerance>>

\* res_summary: the ratio without, then with, the p-value check.
res_summary(nameplate) ==
    LET r1 == cp_results_eval(ols_model_das, ols_model_sim, rc, tolerance,
                              SummaryNameplate, FALSE, DefaultPval, FALSE)
        r2 == cp_results_eval(r1.das, r1.sim, rc, tolerance,
                              SummaryNameplate, TRUE, DefaultPval, FALSE)
        call == [NoRet EXCEPT !.op = "res_summary"]
    IN  /\ IF r1.out # "ratio"
           THEN /\ ols_model_das' = r1.das
                /\ ols_model_sim' = r1.sim
                /\ ret' = [call EXCEPT !.out = r1.out]
           ELSE /\ ols_model_das' = r2.das
                /\ ols_model_sim' = r2.sim
                /\ ret' = IF r2.out # "ratio" THEN [call EXCEPT !.out = r2.out]
                          ELSE [call EXCEPT !.out = "Styler",
                                            !.stdout.values =
                                               <<r1.cap_ratio, r2.cap_ratio>>]
        /\ UNCHANGED <<das, sim, flt_das, flt_sim, copied, das_mindex,
                       das_summ_data, sim_mindex, sim_summ_data, rc, tolerance>>

\* ------------------------------------------------------------ specifications

Next ==
    \/ \E data \in Tags, filter \in BOOLEAN, inplace \in BOOLEAN :
         reg_cpt(data, filter, inplace)
    \/ \E data \in Tags, name \in FilterNames : update_summary(data, name)
    \/ summary
    \/ uncertainty
    \/ \E point \in RCs : set_rc(point)
    \/ \E str \in Tolerances : set_tolerance(str)
    \/ \E nameplate \in Nameplates, check_pvalues \in BOOLEAN,
          print_res \in BOOLEAN :
         cp_results(nameplate, check_pvalues, DefaultPval, print_res)
    \/ \E nameplate \in Nameplates : res_summary(nameplate)

\* Every operation, on every dataset.
Spec == Init /\ [][Next]_vars

\* Both raw datasets have one row more than the formula has terms.
InitSmall == Construct(1..(NParams + 1), 1..(NParams + 1))

\* Fitting and filtering.
NextFlt ==
    \/ \E data \in Tags, filter \in BOOLEAN, inplace \in BOOLEAN :
         reg_cpt(data, filter, inplace)
    \/ uncertainty

SpecFlt == Init /\ [][NextFlt]_vars

\* Filtering and the filter history.
NextHist ==
    \/ \E data \in Tags, inplace \in BOOLEAN : reg_cpt(data, TRUE, inplace)
    \/ \E data \in Tags, name \in FilterNames : update_summary(data, name)
    \/ summary

SpecHist == InitSmall /\ [][NextHist]_vars

\* Fitting without filtering, and the capacity results.
NextCap ==
    \/ \E data \in Tags : reg_cpt(data, FALSE, TRUE)
    \/ \E point \in RCs : set_rc(point)
    \/ \E str \in Tolerances : set_tolerance(str)
    \/ \E nameplate \in Nameplates, check_pvalues \in BOOLEAN,
          print_res \in BOOLEAN :
         cp_results(nameplate, check_pvalues, DefaultPval, print_res)
    \/ \E nameplate \in Nameplates : res_summary(nameplate)

SpecCap == InitSmall /\ [][NextCap]_vars

\* ------------------------------------------------------------------ claims

Rows(n) == Cardinality(n)

\* The sign token of the stored tolerance is none of '+', '-', '+/-', '-/+'.
UnknownSign ==
    /\ tolerance.has
    /\ split(tolerance.str)[1] \notin Symmetric \cup { <<"+">>, <<"-">> }

\* Both models are fitted and the reporting conditions are stored.
Evaluable ==
    /\ ols_model_das # None
    /\ ols_model_sim # None
    /\ DOMAIN rc # {}

\* What a call may end in when it raises.
Exceptions ==
    {"AttributeError", "PatsyError", "IndexError", "ValueError",
     "UnboundLocalError", "TypeError", "FitError", "ToleranceFormatError"}

\* C1: cp_results with a tolerance whose sign is not recognised ends in an
\* exception (the format error, whatever class carries it) whatever
\* print_res is; it never returns a ratio.
C1_UnknownSignRaises ==
    (ret.op = "cp_results" /\ Evaluable /\ UnknownSign)
        => /\ ret.out \in Exceptions
           /\ ret.cap_ratio = << >>

\* C2: once a dataset's filtered copy exists, no step makes its row count
\* larger than it was the step before.
C2_RowCountNeverIncreases ==
    [][ /\ "das" \in copied => Rows(flt_das') <= Rows(flt_das)
        /\ "sim" \in copied => Rows(flt_sim') <= Rows(flt_sim) ]_vars

\* C3: cp_results and res_summary leave the coefficients stored in
\* ols_model_das and ols_model_sim as they were before the call.
C3_StoredCoefficientsUnchanged ==
    [][ ret'.op \in {"cp_results", "res_summary"}
          => /\ ols_model_das' = ols_model_das
             /\ ols_model_sim' = ols_model_sim ]_vars

\* new is old with exactly one element appended.
OneAppended(old, new) ==
    /\ Len(new) = Len(old) + 1
    /\ SubSeq(new, 1, Len(old)) = old

\* C4: a reg_cpt(data, filter=True) call that filters appends exactly one
\* record, last, to the history of that tag and keeps the earlier records.
C4_FilterAppendsOneRecord ==
    [][ (ret'.op = "reg_cpt" /\ ret'.filter /\ ret'.out # "FitError")
          => /\ ret'.data = "das"
                  => /\ OneAppended(das_mindex, das_mindex')
                     /\ OneAppended(das_summ_data, das_summ_data')
             /\ ret'.data = "sim"
                  => /\ OneAppended(sim_mindex, sim_mindex')
                     /\ OneAppended(sim_summ_data, sim_summ_data') ]_vars

PrintedPlusMinusTen ==
    /\ ret.op = "cp_results"
    /\ ret.print_res
    /\ ret.out = "ratio"
    /\ tolerance.str = <<"+", "/", "-", " ", "1", "0">>

\* The printed tested capacity equals c (nameplate 1000).
CapacityIs(c) ==
    /\ ret.stdout.values[4][2] > 0
    /\ ret.stdout.values[4][1] = c * ret.stdout.values[4][2]

\* C6 as stated: nameplate 1000, tolerance '+/- 10': capacity 950 is PASS,
\* capacity 880 is FAIL and capacity 1100 is FAIL.
C6_AsStated ==
    PrintedPlusMinusTen =>
        /\ CapacityIs(950) => ret.stdout.result = "PASS"
        /\ CapacityIs(880) => ret.stdout.result = "FAIL"
        /\ CapacityIs(1100) => ret.stdout.result = "FAIL"

\* C6 amended: with a symmetric tolerance of 10 the result is PASS exactly
\* when 0.9 * nameplate <= capacity <= 1.1 * nameplate, both ends included:
\* for nameplate 1000, capacity 950 is PASS, 880 is FAIL and 1100 is PASS.
C6_ClosedBand ==
    (/\ ret.op = "cp_results"
     /\ ret.print_res
     /\ ret.out = "ratio"
     /\ tolerance.str \in { <<"+", "/", "-", " ", "1", "0">>,
                            <<"-", "/", "+", " ", "1", "0">> }) =>
        /\ ret.stdout.result \in {"PASS", "FAIL"}
        /\ ret.stdout.result = "PASS" <=>
              /\ ret.cap_ratio[2] > 0
              /\ 90 * ret.cap_ratio[2] <= 100 * ret.cap_ratio[1]
              /\ 100 * ret.cap_ratio[1] <= 110 * ret.cap_ratio[2]
        /\ CapacityIs(950) => ret.stdout.result = "PASS"
        /\ CapacityIs(880) => ret.stdout.result = "FAIL"
        /\ CapacityIs(1100) => ret.stdout.result = "PASS"

\* A capacity at the upper end of the band was evaluated.
C6_Witness ==
    /\ PrintedPlusMinusTen
    /\ CapacityIs(1100)
    /\ ret.stdout.result = "PASS"

\* C7: uncertainty() refits on the filtered das rows plus the reporting
\* point as the last row, one row more than flt_das, and returns a value.
C7_UncertaintyAppendsPoint ==
    ret.op = "uncertainty" =>
        /\ ret.out = "float"
        /\ Rows(ret.rows) = Rows(flt_das) + 1

\* reg_cpt(d, filter=True) has just left fewer rows than the formula has
\* terms in the filtered dataset d.
FilterLeftTooFew(d) ==
    /\ ret.op = "reg_cpt"
    /\ ret.data = d
    /\ ret.filter
    /\ ret.out # "FitError"
    /\ Rows(Flt(d)) < NParams

\* C8: after a filter left fewer than NParams rows (none included), the next
\* reg_cpt on that tag ends in FitError and stores no model.
C8_TooFewRowsIsFitError ==
    [][ \A d \in Tags :
          (FilterLeftTooFew(d) /\ ret'.op = "reg_cpt" /\ ret'.data = d)
            => /\ ret'.out = "FitError"
               /\ ols_model_das' = ols_model_das
               /\ ols_model_sim' = ols_model_sim ]_vars

\* C9: the returned ratio is actual / expected, times 1000 exactly when
\* actual / expected < 0.01; the printed actual carries the same factor and
\* the printed expected none; capacity = nameplate * cap_ratio.  For actual
\* 0.003 and expected 1.5 the ratio is 2.0 and the actual 3.0.
C9_UnitCorrection ==
    (ret.op = "cp_results" /\ ret.out = "ratio") =>
        LET a == predict(ols_model_das, rc)
            e == predict(ols_model_sim, rc)
            small == e > 0 /\ 100 * a < e
            k == IF small THEN 1000 ELSE 1
        IN  /\ ret.cap_ratio = <<k * a, e>>
            /\ ret.print_res =>
                  /\ ret.stdout.values[1] = e
                  /\ ret.stdout.values[2] = k * a
                  /\ ret.stdout.values[3] = ret.cap_ratio
                  /\ \E n \in Nameplates :
                        ret.stdout.values[4] = <<n * k * a, e>>
            /\ (a = 3 /\ e = 1500) =>
                  /\ ret.cap_ratio[1] = 2 * ret.cap_ratio[2]
                  /\ ret.print_res => ret.stdout.values[2] = 3000

\* cp_results evaluated actual 0.003 against expected 1.5 and printed.
C9_Witness ==
    /\ ret.op = "cp_results"
    /\ ret.out = "ratio"
    /\ ret.print_res
    /\ predict(ols_model_das, rc) = 3
    /\ predict(ols_model_sim, rc) = 1500
    /\ ret.cap_ratio = <<3000, 1500>>

\* C10: reg_cpt(data, filter=True, inplace=False) returns the reduced
\* dataset and leaves the stored filtered dataset of that tag with the rows
\* it had to work on before the call.
C10_NotInplaceKeepsStored ==
    [][ (ret'.op = "reg_cpt" /\ ret'.filter /\ ~ret'.inplace
         /\ ret'.out = "CapData")
          => /\ ret'.data = "das" => flt_das' = flt_setup("das")
             /\ ret'.data = "sim" => flt_sim' = flt_setup("sim") ]_vars

====
